---- MODULE Spec2Model ----
(***************************************************************************)
(* Orchestration layer of the smart-grid backend: the batch task           *)
(* orchestrator (services/pipeline_service.py, api/routes/pipeline.py) and *)
(* the real-time simulation engine (services/simulation_service.py).       *)
(*                                                                         *)
(* The services run on one asyncio event loop: the code between two        *)
(* awaits of a coroutine is one atomic action here.  The per-day work of   *)
(* the orchestrator runs in the executor's thread pool, so a day "in       *)
(* flight" overlaps whatever the event loop does meanwhile.                *)
(*                                                                         *)
(* Units: the engine clock _current_hour advances by 15/60 h per step; it  *)
(* is kept here as the number of quarter hours (0.25 is exact in binary    *)
(* floating point, so the sums of the code are exact as well).             *)
(***************************************************************************)
EXTENDS Integers, Sequences, FiniteSets, TLC

(* ---------------------------- bounds ----------------------------------- *)
\* batch tasks that may be created (multi-day studies)
MaxTasks == 1
\* consecutive calendar dates offered as start / end date
MaxSpan == 3
\* single-day batch tasks that may be created one after the other
MaxShortTasks == 3
\* single-day detailed runs that may be in flight together
MaxSingleRuns == 1
\* engine runs (successful start() calls)
MaxRuns == 1
\* largest horizon offered to start(), in quarter hours (hours = k / 4)
MaxHorizon == 2
\* stop() calls that may be waiting for a cancelled loop together
MaxStopCalls == 1
\* engine runs where runs follow one another (stop or loop end, then start again)
MaxRestarts == 2
\* snapshots appended by manual steps where the history is filled past its capacity
MaxAppends == 1002
\* largest limit offered to get_history
MaxLimit == 4
\* manual steps taken before the history is queried
MaxQuerySteps == 3

(* ------------------------- dates (datetime) ---------------------------- *)
\* A date string "YYYY-MM-DD" is the tuple <<year, month, day>>; None is <<>>.
None == <<>>

IsLeap(y) == (y % 4 = 0) /\ ((y % 100 # 0) \/ (y % 400 = 0))

DaysInMonth(y, m) ==
    IF m = 2 THEN (IF IsLeap(y) THEN 29 ELSE 28)
    ELSE IF m \in {4, 6, 9, 11} THEN 30 ELSE 31

\* datetime.strptime(s, "%Y-%m-%d") succeeds
ValidDate(s) ==
    /\ Len(s) = 3
    /\ s[1] \in 1..9999
    /\ s[2] \in 1..12
    /\ s[3] \in 1..DaysInMonth(s[1], s[2])

\* datetime's _days_before_month: the table _DAYS_BEFORE_MONTH, one more after
\* February in a leap year
DaysBeforeMonth(y, m) ==
    <<0, 31, 59, 90, 120, 151, 181, 212, 243, 273, 304, 334>>[m]
        + (IF m > 2 /\ IsLeap(y) THEN 1 ELSE 0)

DaysBeforeYear(y) ==
    (y - 1) * 365 + ((y - 1) \div 4) - ((y - 1) \div 100) + ((y - 1) \div 400)

\* strptime: the proleptic Gregorian ordinal of a valid date string
ToOrdinal(s) == DaysBeforeYear(s[1]) + DaysBeforeMonth(s[1], s[2]) + s[3]

\* strftime("%Y-%m-%d") of the date with ordinal n (datetime's _ord2ymd:
\* 400-, 100-, 4- and 1-year cycles, then the month by estimate and correction)
FromOrdinal(n) ==
    LET n0 == n - 1
        n400 == n0 \div 146097
        r400 == n0 % 146097
        n100 == r400 \div 36524
        r100 == r400 % 36524
        n4 == r100 \div 1461
        r4 == r100 % 1461
        n1 == r4 \div 365
        r1 == r4 % 365
        year == n400 * 400 + 1 + n100 * 100 + n4 * 4 + n1
        leapyear == n1 = 3 /\ (n4 # 24 \/ n100 = 3)
        guess == (r1 + 50) \div 32
        before(m) == DaysBeforeMonth(year, m)
        month == IF before(guess) > r1 THEN guess - 1 ELSE guess
    IN  IF n1 = 4 \/ n100 = 4
        THEN <<year - 1, 12, 31>>
        ELSE <<year, month, r1 - before(month) + 1>>

FirstDate == <<2025, 7, 31>>
MalformedDate == <<2025, 8, 32>>

GoodDates == { FromOrdinal(ToOrdinal(FirstDate) + k) : k \in 0..(MaxSpan - 1) }
StartDates == GoodDates \cup {MalformedDate}
EndDates == GoodDates \cup {None}

(* ------------------------------ state ---------------------------------- *)
VARIABLES
    tasks,            \* PipelineService._tasks: task id (1, 2, ...) -> SimulationTask
    running_task_id,  \* PipelineService._running_task_id, 0 for None
    coro,             \* the _run_task coroutine of each task: pc and locals
    single_runs,      \* run_single_day_detailed calls whose executor work is in flight
    cancelled_ids,    \* history variable: the tasks cancel_task returned True for
    model_loaded,     \* OpenDSSService._model_loaded
    running,          \* SimulationService._running
    paused,           \* SimulationService._paused
    simulation_speed, \* SimulationService._simulation_speed
    current_hour,     \* SimulationService._current_hour, in quarter hours
    mode,             \* SimulationService._mode
    history,          \* SimulationService._history
    current_state,    \* SimulationService._current_state, <<>> for None
    simulation_task,  \* SimulationService._simulation_task: a loop id, 0 for None
    loops,            \* the stepping-loop coroutines start() created: pc and locals
    stop_waiting,     \* per loop, the stop() calls suspended in "await self._simulation_task"
    fanout,           \* timestamps handed to _broadcast_state since the last start()
    pause_pending,    \* history variable: a pause() succeeded, no resume() or stop() since
    active_connections, \* ConnectionManager.active_connections
    callbacks,        \* ConnectionManager._callbacks: the observers that have an entry
    subscribers,      \* SimulationService._subscribers: callbacks, named by their observer
    endpoint,         \* the websocket_endpoint coroutine of each observer: pc and locals
    socket_open,      \* per observer: its client has not gone away
    hub_writes,       \* the writes of the step just taken to the observer set, by lock state
    dss_loads,        \* the circuit's loads: name -> nominal kW (dss.Loads.kW())
    current_load_mult, \* OpenDSSService._current_load_mult, in tenths
    grid_state,       \* the loads and total_load_kw of the GridState built last
    ret               \* the response of the request just served (op "none": a background step)

batchVars == <<tasks, running_task_id, coro, single_runs, cancelled_ids>>
engineVars == <<model_loaded, running, paused, simulation_speed, current_hour, mode,
                history, current_state, simulation_task, loops, stop_waiting, fanout,
                pause_pending>>
\* the engine's own fields: engineVars without the adapter's loaded flag
engineFields == <<running, paused, simulation_speed, current_hour, mode,
                  history, current_state, simulation_task, loops, stop_waiting, fanout,
                  pause_pending>>
hubVars == <<active_connections, callbacks, subscribers, endpoint, socket_open, hub_writes>>
gridVars == <<dss_loads, current_load_mult, grid_state>>
vars == <<batchVars, engineVars, hubVars, gridVars, ret>>

NoCall == [op |-> "none", ok |-> TRUE, val |-> 0]
Response(op, ok, val) == [op |-> op, ok |-> ok, val |-> val]


(* ------------------------ batch orchestrator --------------------------- *)
\* PipelineService.is_busy
is_busy == running_task_id # 0

\* what one day's executor work can do: succeed, fail in preparation, or fail
\* to compile the grid model
DayOutcomes == {"ok", "prepare_error", "compile_error"}
\* the same with one kind of failure (the two differ in their message only)
RangeOutcomes == {"ok", "compile_error"}

\* _summarize_day: the per-day summary record (the aggregates are left out)
SummarizeDay(date_str) == [date |-> date_str, status |-> "success", error |-> ""]

\* _sync_work of _run_one_day: _prepare_date, _run_simulation, _summarize_day.
\* raised = TRUE: an exception leaves it, value is its message.
SyncWork(date_str, outcome) ==
    IF outcome = "prepare_error"
    THEN [raised |-> TRUE, value |-> "prepare failed"]
    ELSE IF outcome = "compile_error"
    THEN [raised |-> TRUE, value |-> "DSS compile error"]
    ELSE [raised |-> FALSE, value |-> SummarizeDay(date_str)]

\* _run_simulation marks the shared adapter as loaded once the compile of the
\* day has succeeded (the executor thread's assignment is taken at the day's end)
LoadedAfterDay(outcome) == model_loaded \/ outcome = "ok"

\* a _run_one_day without its except clause
RunOneDayNoCatch(date_str, outcome) == SyncWork(date_str, outcome)

\* _run_one_day: the executor work, every exception turned into an error record
RunOneDay(date_str, outcome) ==
    LET r == SyncWork(date_str, outcome)
    IN  IF r.raised
        THEN [raised |-> FALSE,
              value |-> [date |-> date_str, status |-> "error", error |-> r.value]]
        ELSE r

\* a start_simulation whose task record is born running
NewTaskBornRunning(start_date, end_date) ==
    LET is_range == end_date # None /\ end_date # start_date
        e == IF end_date # None THEN end_date ELSE start_date
    IN  [status |-> "running",
         mode |-> IF is_range THEN "range" ELSE "single",
         start_date |-> start_date,
         end_date |-> e,
         total_days |-> ToOrdinal(e) - ToOrdinal(start_date) + 1,
         current_day |-> 0,
         current_date |-> <<>>,
         completed_days |-> <<>>,
         error |-> ""]

\* SimulationTask(...) as start_simulation builds it
NewTask(start_date, end_date) ==
    LET is_range == end_date # None /\ end_date # start_date
        e == IF end_date # None THEN end_date ELSE start_date
    IN  [status |-> "pending",
         mode |-> IF is_range THEN "range" ELSE "single",
         start_date |-> start_date,
         end_date |-> e,
         total_days |-> ToOrdinal(e) - ToOrdinal(start_date) + 1,
         current_day |-> 0,
         current_date |-> <<>>,
         completed_days |-> <<>>,
         error |-> ""]

NewCoro == [pc |-> "spawned", current |-> 0, d_end |-> 0, day_num |-> 0, date_str |-> <<>>]

\* a _run_task that has ended: its locals are gone
DoneCoro == [NewCoro EXCEPT !.pc = "done"]

\* a _run_task that ends without its finally clause: the busy flag stays
TaskExitKeepsBusy(task, status, error) ==
    [task |-> [task EXCEPT !.status = status, !.error = error],
     co |-> DoneCoro,
     exited |-> FALSE]

\* the finally clause of _run_task together with the status it leaves
TaskExit(task, status, error) ==
    [task |-> [task EXCEPT !.status = status, !.error = error],
     co |-> DoneCoro,
     exited |-> TRUE]

\* the loop test of _run_task without the cancellation check
WhileDaysNoCancelCheck(task, co) ==
    IF co.current <= co.d_end
    THEN [task |-> [task EXCEPT !.current_day = co.day_num + 1,
                                !.current_date = FromOrdinal(co.current)],
          co |-> [co EXCEPT !.pc = "day", !.day_num = co.day_num + 1,
                            !.date_str = FromOrdinal(co.current)],
          exited |-> FALSE]
    ELSE TaskExit(task, "completed", task.error)

\* _run_task from the loop test to the next await: either a day is handed to
\* the executor (pc "day"), or the loop is left (by its test or by the break),
\* status becomes "completed" and the finally clause runs
WhileDays(task, co) ==
    IF co.current <= co.d_end /\ task.status # "cancelled"
    THEN [task |-> [task EXCEPT !.current_day = co.day_num + 1,
                                !.current_date = FromOrdinal(co.current)],
          co |-> [co EXCEPT !.pc = "day", !.day_num = co.day_num + 1,
                            !.date_str = FromOrdinal(co.current)],
          exited |-> FALSE]
    ELSE TaskExit(task, "completed", task.error)

\* the effect of one resumption of _run_task on the service
Resumed(t, r) ==
    /\ tasks' = [tasks EXCEPT ![t] = r.task]
    /\ coro' = [coro EXCEPT ![t] = r.co]
    /\ running_task_id' = IF r.exited THEN 0 ELSE running_task_id
    /\ ret' = NoCall
    /\ UNCHANGED <<single_runs, cancelled_ids, engineFields, hubVars, gridVars>>

\* POST /pipeline/simulate: the route's busy test, then start_simulation
StartBatch(start_date, end_date) ==
    /\ UNCHANGED <<single_runs, cancelled_ids, engineVars, hubVars, gridVars>>
    /\ IF is_busy
       THEN /\ ret' = Response("start_batch", FALSE, "Conflict")
            /\ UNCHANGED <<tasks, running_task_id, coro>>
       ELSE IF ~ValidDate(start_date) \/ (end_date # None /\ ~ValidDate(end_date))
       THEN /\ ret' = Response("start_batch", FALSE, "ValueError")
            /\ UNCHANGED <<tasks, running_task_id, coro>>
       ELSE /\ tasks' = Append(tasks, NewTask(start_date, end_date))
            /\ coro' = Append(coro, NewCoro)
            /\ running_task_id' = Len(tasks) + 1
            /\ ret' = Response("start_batch", TRUE, Len(tasks) + 1)

\* _run_task, first resumption: up to the first await
TaskBegin(t) ==
    /\ t \in 1..Len(tasks)
    /\ coro[t].pc = "spawned"
    /\ LET task == [tasks[t] EXCEPT !.status = "running"]
       IN  IF ~ValidDate(task.start_date) \/ ~ValidDate(task.end_date)
           THEN Resumed(t, TaskExit(task, "error", "ValueError"))
           ELSE Resumed(t, WhileDays(task,
                    [coro[t] EXCEPT !.current = ToOrdinal(task.start_date),
                                    !.d_end = ToOrdinal(task.end_date)]))
    /\ UNCHANGED model_loaded

\* the executor finishes the day in flight: _run_one_day returns (or raises),
\* the record is appended and _run_task awaits asyncio.sleep(0.1)
TaskDayReturn(t, outcome) ==
    /\ t \in 1..Len(tasks)
    /\ coro[t].pc = "day"
    /\ model_loaded' = LoadedAfterDay(outcome)
    /\ LET r == RunOneDay(coro[t].date_str, outcome)
       IN  IF r.raised
           THEN Resumed(t, TaskExit(tasks[t], "error", r.value))
           ELSE Resumed(t,
                    [task |-> [tasks[t] EXCEPT
                                 !.completed_days = Append(@, r.value)],
                     co |-> [coro[t] EXCEPT !.pc = "sleep", !.current = @ + 1],
                     exited |-> FALSE])

\* asyncio.sleep(0.1) returns: back to the loop test
TaskWake(t) ==
    /\ t \in 1..Len(tasks)
    /\ coro[t].pc = "sleep"
    /\ Resumed(t, WhileDays(tasks[t], coro[t]))
    /\ UNCHANGED model_loaded

\* a cancel_task that does not look at the status
CancelAllowedAnyStatus(task_id) == task_id \in 1..Len(tasks)

\* the test of cancel_task: the task exists and is running
CancelAllowed(task_id) ==
    task_id \in 1..Len(tasks) /\ tasks[task_id].status = "running"

\* POST /pipeline/cancel/{task_id}: cancel_task and the route's answer
Cancel(task_id) ==
    /\ UNCHANGED <<coro, single_runs, engineVars, hubVars, gridVars>>
    /\ IF CancelAllowed(task_id)
       THEN /\ tasks' = [tasks EXCEPT ![task_id].status = "cancelled"]
            /\ running_task_id' = 0
            /\ cancelled_ids' = cancelled_ids \cup {task_id}
            /\ ret' = Response("cancel", TRUE, task_id)
       ELSE /\ UNCHANGED <<tasks, running_task_id, cancelled_ids>>
            /\ ret' = Response("cancel", FALSE, task_id)

\* a simulate-day route without its busy test
SimulateDayNeverRefused == FALSE

\* the busy test of the simulate-day route
SimulateDayRefused == is_busy

\* POST /pipeline/simulate-day: the route's busy test, then the executor work
\* of run_single_day_detailed is started
SimulateDayBegin(date) ==
    /\ UNCHANGED <<tasks, running_task_id, coro, cancelled_ids, engineVars, hubVars, gridVars>>
    /\ IF SimulateDayRefused
       THEN /\ ret' = Response("simulate_day", FALSE, "Conflict")
            /\ UNCHANGED single_runs
       ELSE /\ single_runs' = single_runs + 1
            /\ ret' = NoCall

\* the executor work of run_single_day_detailed returns or raises
SimulateDayReturn(outcome) ==
    /\ single_runs > 0
    /\ single_runs' = single_runs - 1
    /\ model_loaded' = LoadedAfterDay(outcome)
    /\ UNCHANGED <<tasks, running_task_id, coro, cancelled_ids, engineFields, hubVars, gridVars>>
    /\ ret' = Response("simulate_day", ~SyncWork(<<>>, outcome).raised, "done")

BatchInit ==
    /\ tasks = <<>>
    /\ running_task_id = 0
    /\ coro = <<>>
    /\ single_runs = 0
    /\ cancelled_ids = {}

\* the background execution of the tasks
TaskStep(outcomes) ==
    \/ \E t \in 1..Len(tasks) : TaskBegin(t)
    \/ \E t \in 1..Len(tasks), o \in outcomes : TaskDayReturn(t, o)
    \/ \E t \in 1..Len(tasks) : TaskWake(t)

\* cancel requests for every known task id and for one unknown id
CancelRequest == \E id \in 1..(Len(tasks) + 1) : Cancel(id)

NextBatch ==
    \/ Len(tasks) < MaxTasks /\ \E s \in StartDates, e \in EndDates : StartBatch(s, e)
    \/ TaskStep(RangeOutcomes)
    \/ CancelRequest

\* requests that arrive while the orchestrator is busy: starts of one-day
\* tasks and single-day runs are offered whenever a task holds the busy flag
NextAdmission ==
    \/ /\ is_busy \/ Len(tasks) < MaxTasks
       /\ \E s \in {FirstDate, MalformedDate} : StartBatch(s, None)
    \/ TaskStep(RangeOutcomes)
    \/ CancelRequest
    \/ (is_busy \/ single_runs < MaxSingleRuns) /\ SimulateDayBegin(FirstDate)
    \/ \E o \in RangeOutcomes : SimulateDayReturn(o)

\* single-day tasks only, more of them
NextShortTasks ==
    \/ Len(tasks) < MaxShortTasks /\ StartBatch(FirstDate, None)
    \/ TaskStep(DayOutcomes)
    \/ CancelRequest

(* ------------------------ real-time engine ----------------------------- *)
\* SimulationService._max_history_length
max_history_length == 1000
\* SimulationService._step_minutes
step_minutes == 15

\* what one adapter step can do: converge, not converge, or raise
StepOutcomes == {"converged", "not_converged", "raise"}
\* the same without non-convergence
PlainOutcomes == {"converged", "raise"}
\* whether load_model would succeed; it is only called while no model is loaded
LoadOutcomes == IF model_loaded THEN {TRUE} ELSE BOOLEAN
\* speeds offered to set_speed() and start(); the duplex channel passes any number
SpeedInputs == {0, 1, 2}
PositiveSpeeds == {sp \in SpeedInputs : sp > 0}
ModeInputs == {"synthetic", "real_data"}
\* horizons offered to start(), in quarter hours
HorizonInputs == {0, MaxHorizon}

\* the snapshot of one step: GridState with its timestamp set (aggregates left out)
Snapshot(timestamp, converged) == [timestamp |-> timestamp, converged |-> converged]

\* an _add_to_history that already evicts when the capacity is reached
AddToHistoryEvictsEarly(h, state) ==
    LET a == Append(h, state)
    IN  IF Len(a) >= max_history_length THEN Tail(a) ELSE a

\* _add_to_history: append, then drop the oldest entry beyond the capacity
AddToHistory(h, state) ==
    LET a == Append(h, state)
    IN  IF Len(a) > max_history_length THEN Tail(a) ELSE a

\* the engine fields a step or a loop writes, as one record
Engine ==
    [running |-> running, paused |-> paused, current_hour |-> current_hour,
     history |-> history, current_state |-> current_state,
     simulation_task |-> simulation_task, fanout |-> fanout]

SetEngine(e) ==
    /\ running' = e.running
    /\ paused' = e.paused
    /\ current_hour' = e.current_hour
    /\ history' = e.history
    /\ current_state' = e.current_state
    /\ simulation_task' = e.simulation_task
    /\ fanout' = e.fanout

\* a loop body that gives the run up when the power flow did not converge
ProduceStopsUnconverged(e, converged) ==
    LET state == Snapshot(e.current_hour, converged)
    IN  [e EXCEPT !.current_state = state,
                  !.history = AddToHistory(e.history, state),
                  !.fanout = Append(e.fanout, state.timestamp),
                  !.running = e.running /\ converged]

\* one produced snapshot: _current_state is replaced, _add_to_history and
\* _broadcast_state are called with it
Produce(e, converged) ==
    LET state == Snapshot(e.current_hour, converged)
    IN  [e EXCEPT !.current_state = state,
                  !.history = AddToHistory(e.history, state),
                  !.fanout = Append(e.fanout, state.timestamp)]

\* the locals of a loop coroutine; while it is suspended in _broadcast_state:
\* state_dict, the snapshot being fanned out, targets, list(self._subscribers)
\* as a set, and todo, the rest of that list; invoked logs the callbacks the
\* fan-out begun last has called, in order, with what they were handed
NewLoop(m, hours) ==
    [pc |-> "spawned", mode |-> m, total_hours |-> hours, step |-> 0,
     step_interval |-> 0, cancelled |-> FALSE, exit |-> "none",
     state_dict |-> <<>>, targets |-> {}, todo |-> <<>>, invoked |-> <<>>]

\* a coroutine that has ended: its locals are gone; exit tells how it was left:
\* "ended" by its loop test or break, "error" by the except Exception clause,
\* "cancelled" by CancelledError
DoneLoop(reason) == [NewLoop("synthetic", 0) EXCEPT !.pc = "done", !.exit = reason]

\* a finally clause that forgets the flags and clears the task handle only
LoopFinallyKeepsFlags(e, lp, reason) ==
    [e |-> [e EXCEPT !.simulation_task = 0],
     lp |-> DoneLoop(reason)]

\* the finally clause of both loops
LoopFinally(e, lp, reason) ==
    [e |-> [e EXCEPT !.running = FALSE, !.paused = FALSE, !.simulation_task = 0],
     lp |-> DoneLoop(reason)]

\* a _simulation_loop without its paused test
SyntheticIterateIgnoresPause(e, lp, outcome) ==
    IF ~(e.running /\ e.current_hour < lp.total_hours)
    THEN LoopFinally(e, lp, "ended")
    ELSE IF ~model_loaded \/ outcome = "raise"
    THEN LoopFinally(e, lp, "error")
    ELSE [e |-> Produce(e, outcome = "converged"), lp |-> [lp EXCEPT !.pc = "sleep"]]

\* _simulation_loop from its while test to the next await
SyntheticIterate(e, lp, outcome) ==
    IF ~(e.running /\ e.current_hour < lp.total_hours)
    THEN LoopFinally(e, lp, "ended")
    ELSE IF e.paused
    THEN [e |-> e, lp |-> [lp EXCEPT !.pc = "pause_sleep"]]
    ELSE IF ~model_loaded \/ outcome = "raise"
    THEN LoopFinally(e, lp, "error")
    ELSE [e |-> Produce(e, outcome = "converged"), lp |-> [lp EXCEPT !.pc = "sleep"]]

\* _real_data_simulation_loop from the head of its for loop to the next await
\* (lp.step is the value the range iterator hands out next, total_hours * 4 its end)
RealDataIterate(e, lp, outcome) ==
    IF ~(lp.step < lp.total_hours) \/ ~e.running
    THEN LoopFinally(e, lp, "ended")
    ELSE IF e.paused
    THEN [e |-> e, lp |-> [lp EXCEPT !.pc = "pause_sleep"]]
    ELSE IF outcome = "raise"
    THEN LoopFinally(e, lp, "error")
    ELSE [e |-> Produce(e, outcome = "converged"), lp |-> [lp EXCEPT !.pc = "sleep"]]

Iterate(e, lp, outcome) ==
    IF lp.mode = "real_data"
    THEN RealDataIterate(e, lp, outcome)
    ELSE SyntheticIterate(e, lp, outcome)

\* the for loop of the real_data loop takes its next index; the while loop has none
NextIndex(lp) == IF lp.mode = "real_data" THEN [lp EXCEPT !.step = @ + 1] ELSE lp

\* one resumption of a loop coroutine, up to its next await or its end
Resumption(e, lp, outcome) ==
    IF lp.cancelled
    THEN \* CancelledError at the await; a task cancelled before its first step never runs
         IF lp.pc = "spawned"
         THEN [e |-> e, lp |-> DoneLoop("cancelled")]
         ELSE LoopFinally(e, lp, "cancelled")
    ELSE IF lp.pc = "spawned"
    THEN \* step_interval = (self._step_minutes * 60) / self._simulation_speed
         IF simulation_speed = 0
         THEN LoopFinally(e, lp, "error")
         ELSE Iterate(e, [lp EXCEPT !.step_interval =
                                       (step_minutes * 60) \div simulation_speed],
                      outcome)
    ELSE IF lp.pc = "sleep"
    THEN \* self._current_hour += self._step_minutes / 60
         Iterate([e EXCEPT !.current_hour = @ + 1], NextIndex(lp), outcome)
    ELSE Iterate(e, NextIndex(lp), outcome)

LoopResume(l, outcome) ==
    /\ UNCHANGED pause_pending
    /\ l \in 1..Len(loops)
    /\ loops[l].pc # "done"
    /\ LET r == Resumption(Engine, loops[l], outcome)
       IN  /\ SetEngine(r.e)
           /\ loops' = [loops EXCEPT ![l] = r.lp]
    /\ ret' = NoCall
    /\ UNCHANGED <<hubVars, gridVars, batchVars, model_loaded, simulation_speed, mode, stop_waiting>>

\* a start() without its "already running" test
StartNeverRefused == FALSE

\* the "already running" test of start()
StartRefused == running

\* a start() that keeps the clock and the history of the previous run
StartFieldsKeepClock(speed, m) ==
    [running |-> TRUE, paused |-> FALSE, simulation_speed |-> speed,
     current_hour |-> current_hour, mode |-> m, history |-> history]

\* the fields start() assigns before it creates the loop task
StartFields(speed, m) ==
    [running |-> TRUE, paused |-> FALSE, simulation_speed |-> speed,
     current_hour |-> 0, mode |-> m, history |-> <<>>]

\* SimulationService.start; load_ok: whether load_model would succeed
Start(hours, speed, m, load_ok) ==
    /\ UNCHANGED pause_pending
    /\ UNCHANGED <<hubVars, gridVars, batchVars, current_state>>
    /\ IF ~model_loaded /\ ~load_ok
       THEN /\ ret' = Response("start", FALSE, "Failed to load model")
            /\ UNCHANGED <<model_loaded, running, paused, simulation_speed, current_hour,
                           mode, history, simulation_task, loops, stop_waiting, fanout>>
       ELSE /\ model_loaded' = TRUE
            /\ IF StartRefused
               THEN /\ ret' = Response("start", FALSE, "Simulation already running")
                    /\ UNCHANGED <<running, paused, simulation_speed, current_hour, mode,
                                   history, simulation_task, loops, stop_waiting, fanout>>
               ELSE /\ LET f == StartFields(speed, m)
                       IN  /\ running' = f.running
                           /\ paused' = f.paused
                           /\ simulation_speed' = f.simulation_speed
                           /\ current_hour' = f.current_hour
                           /\ mode' = f.mode
                           /\ history' = f.history
                    /\ fanout' = <<>>
                    /\ loops' = Append(loops, NewLoop(m, hours))
                    /\ stop_waiting' = Append(stop_waiting, 0)
                    /\ simulation_task' = Len(loops) + 1
                    /\ ret' = Response("start", TRUE, <<speed, m>>)

\* a stop() that clears the running flag only
StopFlagsKeepPaused == [running |-> FALSE, paused |-> paused]

\* the flags stop() assigns first
StopFlags == [running |-> FALSE, paused |-> FALSE]

\* SimulationService.stop, up to "await self._simulation_task"
Stop ==
    /\ pause_pending' = FALSE
    /\ running' = StopFlags.running
    /\ paused' = StopFlags.paused
    /\ UNCHANGED <<hubVars, gridVars, batchVars, model_loaded, simulation_speed, current_hour, mode,
                   history, current_state, fanout>>
    /\ IF simulation_task = 0
       THEN /\ ret' = Response("stop", TRUE, "stopped")
            /\ UNCHANGED <<simulation_task, loops, stop_waiting>>
       ELSE IF loops[simulation_task].pc = "done"
       THEN \* the handle of a finished task: the await returns at once
            /\ simulation_task' = 0
            /\ ret' = Response("stop", TRUE, "stopped")
            /\ UNCHANGED <<loops, stop_waiting>>
       ELSE /\ loops' = [loops EXCEPT ![simulation_task].cancelled = TRUE]
            /\ stop_waiting' = [stop_waiting EXCEPT ![simulation_task] = @ + 1]
            /\ ret' = NoCall
            /\ UNCHANGED simulation_task

\* the loop a stop() waits for has ended: stop() clears the handle and returns
StopReturn(l) ==
    /\ UNCHANGED pause_pending
    /\ l \in 1..Len(loops)
    /\ stop_waiting[l] > 0
    /\ loops[l].pc = "done"
    /\ stop_waiting' = [stop_waiting EXCEPT ![l] = @ - 1]
    /\ simulation_task' = 0
    /\ ret' = Response("stop", TRUE, "stopped")
    /\ UNCHANGED <<hubVars, gridVars, batchVars, model_loaded, running, paused, simulation_speed,
                   current_hour, mode, history, current_state, loops, fanout>>

\* SimulationService.pause
Pause ==
    /\ pause_pending' = (running \/ pause_pending)
    /\ IF ~running
       THEN /\ ret' = Response("pause", FALSE, "Simulation not running")
            /\ UNCHANGED paused
       ELSE /\ paused' = TRUE
            /\ ret' = Response("pause", TRUE, "paused")
    /\ UNCHANGED <<hubVars, gridVars, batchVars, model_loaded, running, simulation_speed, current_hour, mode,
                   history, current_state, simulation_task, loops, stop_waiting, fanout>>

\* SimulationService.resume
Resume ==
    /\ pause_pending' = FALSE
    /\ IF ~running
       THEN /\ ret' = Response("resume", FALSE, "Simulation not running")
            /\ UNCHANGED paused
       ELSE /\ paused' = FALSE
            /\ ret' = Response("resume", TRUE, "resumed")
    /\ UNCHANGED <<hubVars, gridVars, batchVars, model_loaded, running, simulation_speed, current_hour, mode,
                   history, current_state, simulation_task, loops, stop_waiting, fanout>>

\* a set_speed that refuses negative speeds only
SpeedRejectedNegativeOnly(speed) == speed < 0

\* the test of set_speed
SpeedRejected(speed) == speed <= 0

\* SimulationService.set_speed (the response is kept with the speed asked for)
SetSpeed(speed) ==
    /\ UNCHANGED pause_pending
    /\ IF SpeedRejected(speed)
       THEN /\ ret' = Response("set_speed", FALSE, speed)
            /\ UNCHANGED simulation_speed
       ELSE /\ simulation_speed' = speed
            /\ ret' = Response("set_speed", TRUE, speed)
    /\ UNCHANGED <<hubVars, gridVars, batchVars, model_loaded, running, paused, current_hour, mode,
                   history, current_state, simulation_task, loops, stop_waiting, fanout>>

\* a step() that records nothing while a run is in progress
StepEffectIdleOnly(e, converged) ==
    IF e.running
    THEN [e EXCEPT !.current_hour = @ + 1]
    ELSE [Produce(e, converged) EXCEPT !.current_hour = @ + 1]

\* what a step() does once the adapter has answered: the snapshot is stored,
\* appended and fanned out, then the clock advances; no test of the run state
StepEffect(e, converged) == [Produce(e, converged) EXCEPT !.current_hour = @ + 1]

\* SimulationService.step; an exception of the adapter leaves step() before
\* anything is recorded
Step(outcome, load_ok) ==
    /\ UNCHANGED pause_pending
    /\ UNCHANGED <<hubVars, gridVars, batchVars, simulation_speed, mode, loops, stop_waiting>>
    /\ IF ~model_loaded /\ ~load_ok
       THEN /\ ret' = Response("step", FALSE, "Failed to load model")
            /\ UNCHANGED <<model_loaded, running, paused, current_hour, history,
                           current_state, simulation_task, fanout>>
       ELSE /\ model_loaded' = TRUE
            /\ IF outcome = "raise"
               THEN /\ ret' = Response("step", FALSE, "adapter error")
                    /\ UNCHANGED <<running, paused, current_hour, history,
                                   current_state, simulation_task, fanout>>
               ELSE /\ SetEngine(StepEffect(Engine, outcome = "converged"))
                    /\ ret' = Response("step", TRUE, "stepped")

\* the Python slice q[start:] (negative start counts from the end, both clipped)
SliceFrom(q, start) ==
    LET n == Len(q)
        first == IF start < 0
                 THEN (IF n + start < 0 THEN 0 ELSE n + start)
                 ELSE (IF start > n THEN n ELSE start)
    IN  SubSeq(q, first + 1, n)

\* SimulationService.get_history: self._history[-limit:]
get_history(limit) == SliceFrom(history, 0 - limit)

\* GET /simulation/history and the duplex channel's get_history (the response
\* is kept with the limit asked for)
GetHistory(limit) ==
    /\ ret' = Response("get_history", TRUE, [limit |-> limit, history |-> get_history(limit)])
    /\ UNCHANGED <<batchVars, engineVars, hubVars, gridVars>>

\* limits offered to get_history: the request takes any integer
LimitInputs == (0 - 1)..MaxLimit

\* POST /grid/load: OpenDSSService.load_model succeeds or fails
LoadModel(load_ok) ==
    /\ UNCHANGED pause_pending
    /\ model_loaded' = load_ok
    /\ ret' = Response("load", load_ok, "load")
    /\ UNCHANGED <<hubVars, gridVars, batchVars, running, paused, simulation_speed, current_hour, mode,
                   history, current_state, simulation_task, loops, stop_waiting, fanout>>

EngineInit ==
    /\ model_loaded \in BOOLEAN
    /\ running = FALSE
    /\ paused = FALSE
    /\ simulation_speed = 1
    /\ current_hour = 0
    /\ mode = "synthetic"
    /\ history = <<>>
    /\ current_state = <<>>
    /\ simulation_task = 0
    /\ loops = <<>>
    /\ stop_waiting = <<>>
    /\ fanout = <<>>
    /\ pause_pending = FALSE

RECURSIVE SumSeq(_)
SumSeq(q) == IF q = <<>> THEN 0 ELSE Head(q) + SumSeq(Tail(q))

\* the background execution of the engine
LoopStep(outcomes) == \E l \in 1..Len(loops), o \in outcomes : LoopResume(l, o)

NextEngine ==
    \/ /\ running \/ Len(loops) < MaxRuns
       /\ \E h \in HorizonInputs, sp \in PositiveSpeeds, m \in ModeInputs,
             ok \in LoadOutcomes : Start(h, sp, m, ok)
    \/ LoopStep(PlainOutcomes)
    \/ SumSeq(stop_waiting) < MaxStopCalls /\ Stop
    \/ \E l \in 1..Len(loops) : StopReturn(l)
    \/ Pause
    \/ Resume
    \/ \E sp \in SpeedInputs : SetSpeed(sp)
    \/ current_hour < MaxHorizon /\ \E o \in PlainOutcomes, ok \in LoadOutcomes : Step(o, ok)


(* -------------------- fan-out hub and duplex channel ------------------- *)
\* observers (WebSocket objects) that may connect; each connects once
MaxObservers == 2
\* snapshots that manual steps sent over the duplex channel may fan out
MaxFanouts == 2

Observers == 1..MaxObservers

\* list(s) of a set s: its elements in some order
Listings(s) ==
    { q \in [1..Cardinality(s) -> s] : \A i, j \in 1..Cardinality(s) : q[i] = q[j] => i = j }

Range(q) == { q[i] : i \in 1..Len(q) }

\* the locals of websocket_endpoint and of the hub operation it is suspended in:
\* todo: the rest of the list being iterated, targets: that list as a set;
\* disconnected: the local set of manager.broadcast; closed_before: the
\* observers whose disconnect had completed when the iteration began
Endpoint(pc) ==
    [pc |-> pc, todo |-> <<>>, targets |-> {}, disconnected |-> {}, closed_before |-> {}]

NoWrites == [locked |-> {}, unlocked |-> {}]

\* the hub's registrations as one record
Hub == [active_connections |-> active_connections, callbacks |-> callbacks,
        subscribers |-> subscribers]

SetHub(h) ==
    /\ active_connections' = h.active_connections
    /\ callbacks' = h.callbacks
    /\ subscribers' = h.subscribers

\* ConnectionManager.connect after websocket.accept() has returned: the
\* connection is added inside "async with self._lock", the callback is stored
\* and subscribed after the lock has been released
Connected(h, o) ==
    [h |-> [active_connections |-> h.active_connections \cup {o},
            callbacks |-> h.callbacks \cup {o},
            subscribers |-> h.subscribers \cup {o}],
     writes |-> [locked |-> {"active_connections"},
                 unlocked |-> {"_callbacks", "_subscribers"}]]

\* a disconnect that leaves the connection in active_connections
DisconnectedKeepsActive(h, o) ==
    IF o \in h.callbacks
    THEN [h |-> [h EXCEPT !.callbacks = @ \ {o}, !.subscribers = @ \ {o}],
          writes |-> [locked |-> {"_callbacks", "_subscribers"}, unlocked |-> {}]]
    ELSE [h |-> h, writes |-> NoWrites]

\* ConnectionManager.disconnect: discard from active_connections, and, if the
\* connection has a callback, pop it and unsubscribe it; all inside the lock
Disconnected(h, o) ==
    IF o \in h.callbacks
    THEN [h |-> [active_connections |-> h.active_connections \ {o},
                 callbacks |-> h.callbacks \ {o},
                 subscribers |-> h.subscribers \ {o}],
          writes |-> [locked |-> {"active_connections", "_callbacks", "_subscribers"},
                      unlocked |-> {}]]
    ELSE [h |-> [h EXCEPT !.active_connections = @ \ {o}],
          writes |-> [locked |-> {"active_connections"}, unlocked |-> {}]]

\* a broadcast that forgets the connections whose delivery failed
AfterBroadcastKeepsAll(active, disconnected) == active

\* the end of manager.broadcast: self.active_connections -= disconnected
AfterBroadcast(active, disconnected) == active \ disconnected

\* the observers whose endpoint has left through manager.disconnect
Closed == { o \in Observers : endpoint[o].pc = "closed" }

\* bad client messages: text that is not JSON; JSON that is not an object; an
\* object without "action"; an "action" that is not a string; an unknown
\* action; an action whose handling raises (start with params that is no
\* mapping)
BadMessages ==
    {"not_json", "not_object", "no_action", "action_not_string", "unknown", "raises"}

\* what the endpoint told the client about the message it just took
Event(o, msg, type) == Response("message", type # "error", [observer |-> o, msg |-> msg, type |-> type])

\* the client of o goes away: from now on receive raises WebSocketDisconnect
\* and every send to o raises
ClientDrop(o) ==
    /\ socket_open[o]
    /\ socket_open' = [socket_open EXCEPT ![o] = FALSE]
    /\ hub_writes' = NoWrites
    /\ ret' = NoCall
    /\ UNCHANGED <<batchVars, engineVars, gridVars, active_connections, callbacks,
                   subscribers, endpoint>>

\* websocket_endpoint up to its first send: "await manager.connect(websocket)";
\* an accept() that raises leaves the endpoint before anything is registered
Connect(o) ==
    /\ endpoint[o].pc = "none"
    /\ IF socket_open[o]
       THEN LET r == Connected(Hub, o)
            IN  /\ SetHub(r.h)
                /\ hub_writes' = r.writes
                /\ endpoint' = [endpoint EXCEPT ![o] = Endpoint("greet")]
       ELSE /\ endpoint' = [endpoint EXCEPT ![o] = Endpoint("refused")]
            /\ hub_writes' = NoWrites
            /\ UNCHANGED <<active_connections, callbacks, subscribers>>
    /\ ret' = NoCall
    /\ UNCHANGED <<batchVars, engineVars, gridVars, socket_open>>

\* a send_personal returns (it swallows every exception of send_json): after
\* the greeting (info, then status) and after a response or an error event
\* the endpoint awaits the next message
Sent(o) ==
    /\ endpoint[o].pc \in {"greet", "reply"}
    /\ endpoint' = [endpoint EXCEPT ![o] = Endpoint("receive")]
    /\ hub_writes' = NoWrites
    /\ ret' = NoCall
    /\ UNCHANGED <<batchVars, engineVars, gridVars, active_connections, callbacks,
                   subscribers, socket_open>>

\* receive_json raises WebSocketDisconnect: "await manager.disconnect(websocket)"
ReceiveDisconnect(o) ==
    /\ endpoint[o].pc = "receive"
    /\ ~socket_open[o]
    /\ LET r == Disconnected(Hub, o)
       IN  /\ SetHub(r.h)
           /\ hub_writes' = r.writes
    /\ endpoint' = [endpoint EXCEPT ![o] = Endpoint("closed")]
    /\ ret' = NoCall
    /\ UNCHANGED <<batchVars, engineVars, gridVars, socket_open>>

\* a message that handle_client_message answers with an error event:
\* JSONDecodeError caught by the endpoint's loop, the final else branch (a
\* missing action is ""), or an exception caught by "except Exception"
ReceiveAnswered(o, msg) ==
    /\ endpoint[o].pc = "receive"
    /\ socket_open[o]
    /\ msg \in {"not_json", "no_action", "unknown", "raises"}
    /\ endpoint' = [endpoint EXCEPT ![o] = Endpoint("reply")]
    /\ hub_writes' = NoWrites
    /\ ret' = Event(o, msg, "error")
    /\ UNCHANGED <<batchVars, engineVars, gridVars, active_connections, callbacks,
                   subscribers, socket_open>>

\* a message on which data.get("action", "").lower() raises AttributeError,
\* before the try of handle_client_message: the endpoint's outer
\* "except Exception" disconnects the observer and the endpoint ends
ReceiveFatal(o, msg) ==
    /\ endpoint[o].pc = "receive"
    /\ socket_open[o]
    /\ msg \in {"not_object", "action_not_string"}
    /\ LET r == Disconnected(Hub, o)
       IN  /\ SetHub(r.h)
           /\ hub_writes' = r.writes
    /\ endpoint' = [endpoint EXCEPT ![o] = Endpoint("closed")]
    /\ ret' = Event(o, msg, "none")
    /\ UNCHANGED <<batchVars, engineVars, gridVars, socket_open>>

\* action "pause": simulation_service.pause(), then the response is sent
ReceivePause(o) ==
    /\ pause_pending' = (running \/ pause_pending)
    /\ endpoint[o].pc = "receive"
    /\ socket_open[o]
    /\ paused' = (running \/ paused)
    /\ endpoint' = [endpoint EXCEPT ![o] = Endpoint("respond")]
    /\ hub_writes' = NoWrites
    /\ ret' = Event(o, "pause", "response")
    /\ UNCHANGED <<batchVars, gridVars, model_loaded, running, simulation_speed,
                   current_hour, mode, history, current_state, simulation_task, loops,
                   stop_waiting, fanout, active_connections, callbacks, subscribers,
                   socket_open>>

\* the response has been sent: _broadcast_status calls manager.broadcast, which
\* returns at once without connections and otherwise iterates
\* list(self.active_connections) and awaits the first send_json
BroadcastBegin(o) ==
    /\ endpoint[o].pc = "respond"
    /\ IF active_connections = {}
       THEN endpoint' = [endpoint EXCEPT ![o] = Endpoint("receive")]
       ELSE \E q \in Listings(active_connections) :
               endpoint' = [endpoint EXCEPT ![o] =
                              [Endpoint("broadcast") EXCEPT
                                 !.todo = q, !.targets = active_connections,
                                 !.closed_before = Closed]]
    /\ hub_writes' = NoWrites
    /\ ret' = NoCall
    /\ UNCHANGED <<batchVars, engineVars, gridVars, active_connections, callbacks,
                   subscribers, socket_open>>

\* the send_json of manager.broadcast returns or raises: a failure adds the
\* connection to disconnected; after the last one the failed connections are
\* taken out of active_connections inside the lock and broadcast returns
BroadcastDeliver(o) ==
    /\ endpoint[o].pc = "broadcast"
    /\ LET b == endpoint[o]
           t == Head(b.todo)
           d == IF socket_open[t] THEN b.disconnected ELSE b.disconnected \cup {t}
       IN  IF Len(b.todo) > 1
           THEN /\ endpoint' = [endpoint EXCEPT ![o] =
                                  [b EXCEPT !.todo = Tail(@), !.disconnected = d]]
                /\ hub_writes' = NoWrites
                /\ UNCHANGED active_connections
           ELSE /\ endpoint' = [endpoint EXCEPT ![o] = Endpoint("receive")]
                /\ active_connections' = AfterBroadcast(active_connections, d)
                /\ hub_writes' = [locked |-> {"active_connections"}, unlocked |-> {}]
    /\ ret' = NoCall
    /\ UNCHANGED <<batchVars, engineVars, gridVars, callbacks, subscribers, socket_open>>

\* action "step": SimulationService.step up to its first await; a failure to
\* load the model is answered with a response, an exception of the adapter
\* with an error event; otherwise the snapshot is stored and appended and
\* _broadcast_state iterates list(self._subscribers), awaiting the first
\* callback (without subscribers nothing is awaited and step() runs to its end)
ReceiveStep(o, outcome, load_ok) ==
    /\ UNCHANGED pause_pending
    /\ endpoint[o].pc = "receive"
    /\ socket_open[o]
    /\ hub_writes' = NoWrites
    /\ UNCHANGED <<batchVars, gridVars, simulation_speed, mode, loops, stop_waiting,
                   active_connections, callbacks, subscribers, socket_open>>
    /\ IF ~model_loaded /\ ~load_ok
       THEN /\ endpoint' = [endpoint EXCEPT ![o] = Endpoint("reply")]
            /\ ret' = Event(o, "step", "response")
            /\ UNCHANGED <<model_loaded, running, paused, current_hour, history,
                           current_state, simulation_task, fanout>>
       ELSE /\ model_loaded' = TRUE
            /\ IF outcome = "raise"
               THEN /\ endpoint' = [endpoint EXCEPT ![o] = Endpoint("reply")]
                    /\ ret' = Event(o, "step", "error")
                    /\ UNCHANGED <<running, paused, current_hour, history,
                                   current_state, simulation_task, fanout>>
               ELSE IF subscribers = {}
               THEN /\ SetEngine(StepEffect(Engine, outcome = "converged"))
                    /\ endpoint' = [endpoint EXCEPT ![o] = Endpoint("reply")]
                    /\ ret' = Event(o, "step", "response")
               ELSE /\ SetEngine(Produce(Engine, outcome = "converged"))
                    /\ ret' = NoCall
                    /\ \E q \in Listings(subscribers) :
                          endpoint' = [endpoint EXCEPT ![o] =
                                         [Endpoint("fanout") EXCEPT
                                            !.todo = q, !.targets = subscribers]]

\* a callback awaited by _broadcast_state returns: its send_json returned, or
\* raised and the callback logged the error itself, so _broadcast_state sees
\* no exception and discards nothing; after the last callback step() advances
\* the clock and returns, and the response is sent
FanoutDeliver(o) ==
    /\ UNCHANGED pause_pending
    /\ endpoint[o].pc = "fanout"
    /\ IF Len(endpoint[o].todo) > 1
       THEN /\ endpoint' = [endpoint EXCEPT ![o].todo = Tail(@)]
            /\ ret' = NoCall
            /\ UNCHANGED current_hour
       ELSE /\ endpoint' = [endpoint EXCEPT ![o] = Endpoint("reply")]
            /\ ret' = Event(o, "step", "response")
            /\ current_hour' = current_hour + 1
    /\ hub_writes' = NoWrites
    /\ UNCHANGED <<batchVars, gridVars, model_loaded, running, paused, simulation_speed,
                   mode, history, current_state, simulation_task, loops, stop_waiting,
                   fanout, active_connections, callbacks, subscribers, socket_open>>

\* callbacks that other components hand to subscribe(): unlike the hub's
\* callbacks they may raise
MaxPlainCallbacks == 2

PlainCallbacks == (MaxObservers + 1)..(MaxObservers + MaxPlainCallbacks)

\* SimulationService.subscribe
Subscribe(c) ==
    /\ c \notin subscribers
    /\ subscribers' = subscribers \cup {c}
    /\ hub_writes' = NoWrites
    /\ ret' = NoCall
    /\ UNCHANGED <<batchVars, engineVars, gridVars, active_connections, callbacks,
                   endpoint, socket_open>>

\* SimulationService.unsubscribe
Unsubscribe(c) ==
    /\ c \in subscribers
    /\ subscribers' = subscribers \ {c}
    /\ hub_writes' = NoWrites
    /\ ret' = NoCall
    /\ UNCHANGED <<batchVars, engineVars, gridVars, active_connections, callbacks,
                   endpoint, socket_open>>

\* a _broadcast_state that keeps a callback that raised
AfterRaiseKeeps(subs, c) == subs

\* the except clause of _broadcast_state: self._subscribers.discard(callback)
AfterRaise(subs, c) == subs \ {c}

\* one resumption of a loop coroutine of an engine that has subscribers: when
\* the iteration produced a snapshot, _broadcast_state iterates
\* list(self._subscribers) and the loop is suspended in the first callback
LoopFanoutResume(l, outcome) ==
    /\ l \in 1..Len(loops)
    /\ loops[l].pc \notin {"done", "fanout"}
    /\ LET r == Resumption(Engine, loops[l], outcome)
       IN  /\ SetEngine(r.e)
           /\ IF r.e.fanout # fanout /\ subscribers # {}
              THEN \E q \in Listings(subscribers) :
                      loops' = [loops EXCEPT ![l] =
                                  [r.lp EXCEPT !.pc = "fanout",
                                               !.state_dict = r.e.current_state,
                                               !.targets = subscribers,
                                               !.todo = q,
                                               !.invoked = <<>>]]
              ELSE loops' = [loops EXCEPT ![l] = r.lp]
    /\ hub_writes' = NoWrites
    /\ ret' = NoCall
    /\ UNCHANGED <<batchVars, gridVars, model_loaded, simulation_speed, mode, stop_waiting,
                   pause_pending, active_connections, callbacks, subscribers, endpoint,
                   socket_open>>

\* the callback the loop's _broadcast_state awaits returns or raises: a
\* callback that raised is discarded, the iteration goes on, and after the
\* last callback the loop awaits its step sleep
LoopFanoutDeliver(l, raises) ==
    /\ l \in 1..Len(loops)
    /\ loops[l].pc = "fanout"
    /\ LET lp == loops[l]
           c == Head(lp.todo)
           call == [callback |-> c, state_dict |-> lp.state_dict, raised |-> raises]
       IN  /\ raises => c \in PlainCallbacks
           /\ subscribers' = IF raises THEN AfterRaise(subscribers, c) ELSE subscribers
           /\ loops' = [loops EXCEPT ![l] =
                          [lp EXCEPT !.pc = IF Len(lp.todo) > 1 THEN "fanout" ELSE "sleep",
                                     !.todo = Tail(lp.todo),
                                     !.invoked = Append(lp.invoked, call)]]
    /\ hub_writes' = NoWrites
    /\ ret' = NoCall
    /\ UNCHANGED <<batchVars, gridVars, model_loaded, running, paused, simulation_speed,
                   current_hour, mode, history, current_state, simulation_task,
                   stop_waiting, fanout, pause_pending, active_connections, callbacks,
                   endpoint, socket_open>>

HubInit ==
    /\ active_connections = {}
    /\ callbacks = {}
    /\ subscribers = {}
    /\ endpoint = [o \in Observers |-> Endpoint("none")]
    /\ socket_open = [o \in Observers |-> TRUE]
    /\ hub_writes = NoWrites

(* ------------------ the loads of a snapshot (adapter) ------------------ *)
\* The specifications above keep the timestamp and the convergence flag of a
\* snapshot.  Its loads and its total_load_kw are built by the functions
\* below, which SpecLoads applies to circuits drawn in its initial states.
\* Powers are in hundredths of a kW, multipliers in tenths.

\* largest nominal power of a load of the circuit, in kW
MaxLoadKw == 3

LoadNames == {"load_a", "load_b"}
\* load multipliers: the off-peak, shoulder and peak values of the daily profile
LoadMults == {5, 7, 10}

\* dss.Loads.kW(): the nominal power of a load
Kw(nominal) == nominal * 100
\* x * multiplier
Times(x, mult) == (x * mult) \div 10

RECURSIVE SumOver(_, _)
\* sum(f[n] for n in names)
SumOver(f, names) ==
    IF names = {} THEN 0
    ELSE LET n == CHOOSE x \in names : TRUE
         IN  f[n] + SumOver(f, names \ {n})

\* sum(load.kw for load in loads.values())
SumKw(loads) == SumOver(loads, DOMAIN loads)

\* OpenDSSService._get_all_loads: kw = dss.Loads.kW() * self._current_load_mult
GetAllLoads(circuit, mult) == [n \in DOMAIN circuit |-> Times(Kw(circuit[n]), mult)]

\* the load part of OpenDSSService.get_grid_state: the sum of the entries is
\* multiplied by _current_load_mult once more
GetGridState(circuit, mult) ==
    LET loads == GetAllLoads(circuit, mult)
    IN  [source |-> "get_grid_state", loads |-> loads,
         total_load_kw |-> Times(SumKw(loads), mult)]

\* the load part of the snapshot the real_data loop builds itself
RealDataState(circuit, mult) ==
    LET loads == GetAllLoads(circuit, mult)
    IN  [source |-> "real_data", loads |-> loads, total_load_kw |-> SumKw(loads)]

\* a step of the synthetic loop or a step(): set_load_multiplier(load_mult),
\* then get_grid_state()
SyntheticSnapshot(load_mult) ==
    /\ model_loaded
    /\ current_load_mult' = load_mult
    /\ grid_state' = GetGridState(dss_loads, load_mult)
    /\ ret' = NoCall
    /\ UNCHANGED <<batchVars, engineVars, hubVars, dss_loads>>

\* a step of the real_data loop: the multiplier is the one set last
RealDataSnapshot ==
    /\ model_loaded
    /\ grid_state' = RealDataState(dss_loads, current_load_mult)
    /\ ret' = NoCall
    /\ UNCHANGED <<batchVars, engineVars, hubVars, dss_loads, current_load_mult>>

\* POST /grid/load-multiplier: OpenDSSService.set_load_multiplier
SetLoadMultiplier(multiplier) ==
    /\ model_loaded
    /\ current_load_mult' = multiplier
    /\ ret' = Response("load_multiplier", TRUE, multiplier)
    /\ UNCHANGED <<batchVars, engineVars, hubVars, dss_loads, grid_state>>

GridInit ==
    /\ dss_loads = [n \in LoadNames |-> 1]
    /\ current_load_mult = 10
    /\ grid_state = <<>>

\* a loaded circuit whose loads have any nominal power up to MaxLoadKw
InitLoads ==
    /\ BatchInit /\ EngineInit /\ HubInit
    /\ model_loaded
    /\ dss_loads \in [LoadNames -> 0..MaxLoadKw]
    /\ current_load_mult = 10
    /\ grid_state = <<>>
    /\ ret = NoCall

NextLoads ==
    \/ \E m \in LoadMults : SyntheticSnapshot(m)
    \/ RealDataSnapshot
    \/ \E m \in LoadMults : SetLoadMultiplier(m)

SpecLoads == InitLoads /\ [][NextLoads]_vars

Init == BatchInit /\ EngineInit /\ HubInit /\ GridInit /\ ret = NoCall

SpecBatch == Init /\ [][NextBatch]_vars

SpecShortTasks == Init /\ [][NextShortTasks]_vars

SpecAdmission == Init /\ [][NextAdmission]_vars

SpecEngine == Init /\ [][NextEngine]_vars

\* the engine and the orchestrator side by side on the one adapter: one-day
\* tasks, single-day runs, synthetic runs and manual steps
NextShared ==
    \/ /\ running \/ Len(loops) < MaxRuns
       /\ \E ok \in LoadOutcomes : Start(MaxHorizon, 1, "synthetic", ok)
    \/ LoopStep(PlainOutcomes)
    \/ current_hour < MaxHorizon /\ \E o \in PlainOutcomes, ok \in LoadOutcomes : Step(o, ok)
    \/ Len(tasks) < MaxTasks /\ StartBatch(FirstDate, None)
    \/ TaskStep(DayOutcomes)
    \/ (is_busy \/ single_runs < MaxSingleRuns) /\ SimulateDayBegin(FirstDate)
    \/ \E o \in DayOutcomes : SimulateDayReturn(o)

Spec == Init /\ [][NextShared]_vars

\* start requests as the duplex channel passes them on: any speed, any horizon
NextDuplexStart ==
    \/ /\ running \/ Len(loops) < MaxRuns
       /\ \E h \in HorizonInputs, sp \in SpeedInputs, m \in ModeInputs,
             ok \in LoadOutcomes : Start(h, sp, m, ok)
    \/ LoopStep(PlainOutcomes)
    \/ \E sp \in SpeedInputs : SetSpeed(sp)

SpecDuplexStart == Init /\ [][NextDuplexStart]_vars

\* runs that follow one another: start, pause, resume, stop and start again,
\* each run with the largest horizon; the grid model may be reloaded meanwhile
NextRestart ==
    \/ /\ running \/ Len(loops) < MaxRestarts
       /\ \E m \in ModeInputs, ok \in LoadOutcomes : Start(MaxHorizon, 1, m, ok)
    \/ LoopStep(PlainOutcomes)
    \/ SumSeq(stop_waiting) < MaxStopCalls /\ Stop
    \/ \E l \in 1..Len(loops) : StopReturn(l)
    \/ Pause
    \/ Resume
    \/ \E ok \in BOOLEAN : LoadModel(ok)

SpecRestart == Init /\ [][NextRestart]_vars

\* manual steps on an idle engine until the history has been full for a while
NextFill ==
    /\ Len(fanout) < MaxAppends
    /\ \E ok \in LoadOutcomes : Step("converged", ok)

SpecFill == Init /\ [][NextFill]_vars

\* runs in both modes whose adapter steps converge, do not converge or raise
NextRun ==
    \/ /\ running \/ Len(loops) < MaxRuns
       /\ \E m \in ModeInputs, ok \in LoadOutcomes : Start(MaxHorizon, 1, m, ok)
    \/ LoopStep(StepOutcomes)
    \/ Pause
    \/ Resume

SpecRun == Init /\ [][NextRun]_vars

\* a few manual steps, converged or not, and history queries between them
NextQuery ==
    \/ /\ Len(fanout) < MaxQuerySteps
       /\ \E o \in {"converged", "not_converged"}, ok \in LoadOutcomes : Step(o, ok)
    \/ \E limit \in LimitInputs : GetHistory(limit)

SpecQuery == Init /\ [][NextQuery]_vars

\* the hub: observers connect, ask for a pause (which broadcasts the status
\* to every connection), go away and are disconnected
NextHub ==
    \/ \E o \in Observers : Connect(o)
    \/ \E o \in Observers : ClientDrop(o)
    \/ \E o \in Observers : Sent(o)
    \/ \E o \in Observers : ReceiveDisconnect(o)
    \/ \E o \in Observers : ReceivePause(o)
    \/ \E o \in Observers : BroadcastBegin(o)
    \/ \E o \in Observers : BroadcastDeliver(o)

SpecHub == Init /\ [][NextHub]_vars

\* the hub with the engine's fan-out: observers also send step messages
NextFanout ==
    \/ \E o \in Observers : Connect(o)
    \/ \E o \in Observers : ClientDrop(o)
    \/ \E o \in Observers : Sent(o)
    \/ \E o \in Observers : ReceiveDisconnect(o)
    \/ \E o \in Observers : ReceivePause(o)
    \/ \E o \in Observers : BroadcastBegin(o)
    \/ \E o \in Observers : BroadcastDeliver(o)
    \/ /\ Len(fanout) < MaxFanouts
       /\ \E o \in Observers, outcome \in PlainOutcomes, ok \in LoadOutcomes :
             ReceiveStep(o, outcome, ok)
    \/ \E o \in Observers : FanoutDeliver(o)

SpecFanout == Init /\ [][NextFanout]_vars

\* the duplex channel taking good and bad messages
NextChannel ==
    \/ \E o \in Observers : Connect(o)
    \/ \E o \in Observers : ClientDrop(o)
    \/ \E o \in Observers : Sent(o)
    \/ \E o \in Observers : ReceiveDisconnect(o)
    \/ \E o \in Observers, msg \in BadMessages : ReceiveAnswered(o, msg)
    \/ \E o \in Observers, msg \in BadMessages : ReceiveFatal(o, msg)
    \/ \E o \in Observers : ReceivePause(o)
    \/ \E o \in Observers : BroadcastBegin(o)
    \/ \E o \in Observers : BroadcastDeliver(o)

SpecChannel == Init /\ [][NextChannel]_vars

\* every engine operation that touches the flags, over runs that follow one
\* another, with manual steps while the clock and the number of snapshots of
\* the run are below the horizon
NextFlags ==
    \/ /\ running \/ Len(loops) < MaxRestarts
       /\ \E m \in ModeInputs, ok \in LoadOutcomes : Start(MaxHorizon, 1, m, ok)
    \/ LoopStep(PlainOutcomes)
    \/ SumSeq(stop_waiting) < MaxStopCalls /\ Stop
    \/ \E l \in 1..Len(loops) : StopReturn(l)
    \/ Pause
    \/ Resume
    \/ /\ current_hour < MaxHorizon /\ Len(fanout) < MaxHorizon
       /\ \E o \in PlainOutcomes, ok \in LoadOutcomes : Step(o, ok)

SpecFlags == Init /\ [][NextFlags]_vars

\* the resumptions of the _run_task coroutine of task t
TaskRuns(t, outcomes) ==
    \/ TaskBegin(t)
    \/ \E o \in outcomes : TaskDayReturn(t, o)
    \/ TaskWake(t)

\* the days of all tasks created so far
PlannedDays == SumSeq([t \in 1..Len(tasks) |-> tasks[t].total_days])

\* tasks from the first date on that have MaxSpan days between them, and
\* cancel requests
NextLive ==
    \/ /\ Len(tasks) < MaxTasks
       /\ \E e \in EndDates :
             /\ PlannedDays + NewTask(FirstDate, e).total_days <= MaxSpan
             /\ StartBatch(FirstDate, e)
    \/ TaskStep(RangeOutcomes)
    \/ CancelRequest

\* the event loop resumes every _run_task that is ready (a spawned task, a
\* sleep that has elapsed), and the executor finishes every day handed to it
FairTasks == \A t \in 1..MaxTasks : WF_vars(TaskRuns(t, RangeOutcomes))

SpecLive == Init /\ [][NextLive]_vars /\ FairTasks

\* runs that are left alone: no pause, no manual step, an adapter that never
\* raises; only the first run may be stopped, and the next start() may come
\* while that stop() waits.  Start requests are those the duplex channel
\* passes on.
NextHandover ==
    \/ /\ running \/ Len(loops) < MaxRestarts
       /\ \E h \in HorizonInputs, sp \in SpeedInputs, m \in ModeInputs :
             Start(h, sp, m, TRUE)
    \/ LoopStep({"converged", "not_converged"})
    \/ Len(loops) = 1 /\ SumSeq(stop_waiting) < MaxStopCalls /\ Stop
    \/ \E l \in 1..Len(loops) : StopReturn(l)

\* the event loop resumes every loop whose sleep has elapsed
FairLoops ==
    \A l \in 1..MaxRestarts : WF_vars(\E o \in {"converged", "not_converged"} : LoopResume(l, o))

SpecHandover == Init /\ [][NextHandover]_vars /\ FairLoops

\* runs of an engine whose subscribers are plain callbacks that come and go
\* and may raise
NextSubscribers ==
    \/ /\ running \/ Len(loops) < MaxRuns
       /\ \E m \in ModeInputs, ok \in LoadOutcomes : Start(MaxHorizon, 1, m, ok)
    \/ \E l \in 1..Len(loops), o \in PlainOutcomes : LoopFanoutResume(l, o)
    \/ \E l \in 1..Len(loops), raises \in BOOLEAN : LoopFanoutDeliver(l, raises)
    \/ \E c \in PlainCallbacks : Subscribe(c)
    \/ \E c \in PlainCallbacks : Unsubscribe(c)

SpecSubscribers == Init /\ [][NextSubscribers]_vars

(* ============================== claims ================================= *)
Known == 1..Len(tasks)

\* the status changes a request or a resumption of _run_task may show: the
\* steps of pending -> running -> {completed, error, cancelled}; a resumption
\* that assigns "running" and ends before its first await shows pending -> end
AllowedStatusChange ==
    { <<"pending", "running">>, <<"pending", "completed">>, <<"pending", "error">>,
      <<"running", "completed">>, <<"running", "error">>, <<"running", "cancelled">> }

\* C1: a task's status changes only along pending -> running -> {completed |
\* error | cancelled}, and completed, error and cancelled are never left.
C1_StatusMachine ==
    [][\A t \in Known :
          \/ tasks'[t].status = tasks[t].status
          \/ <<tasks[t].status, tasks'[t].status>> \in AllowedStatusChange]_vars

RunningTasks == { t \in Known : tasks[t].status = "running" }

\* C2: in every reachable state at most one batch task has status running.
C2_AtMostOneRunning == Cardinality(RunningTasks) <= 1

\* a is b with at most one record appended
ExtendsByAtMostOne(a, b) ==
    \/ a = b
    \/ Len(a) = Len(b) + 1 /\ SubSeq(a, 1, Len(b)) = b

\* C5: once cancel(id) has succeeded, the background execution starts no
\* further day; only the day in flight at that moment may still be appended,
\* the records already listed stay as they are, and the execution then ends
\* and changes nothing any more.
C5_CancelStopsAtDayBoundary ==
    [][\A t \in Known :
          (tasks[t].status = "cancelled" \/ coro[t].pc = "done") =>
             /\ coro'[t].pc = "day" => coro[t].pc = "day" /\ tasks'[t] = tasks[t]
             /\ coro[t].pc # "day" =>
                   tasks'[t].completed_days = tasks[t].completed_days
             /\ ExtendsByAtMostOne(tasks'[t].completed_days, tasks[t].completed_days)
             /\ tasks'[t].current_day = tasks[t].current_day
             /\ coro[t].pc = "done" => coro'[t].pc = "done"]_vars

\* a cancel just succeeded on a task that already has a record and has its
\* next day in flight
C5_Witness ==
    \E t \in Known :
        /\ ret.op = "cancel" /\ ret.ok /\ ret.val = t
        /\ tasks[t].status = "cancelled"
        /\ coro[t].pc = "day"
        /\ Len(tasks[t].completed_days) >= 1

\* C6: cancel(id) on an unknown task or on a task that is not running returns
\* failure and leaves every task, the busy flag and the executions unchanged
\* (and on a running task it returns success).
C6_CancelNotRunningFails ==
    [][ret'.op = "cancel" =>
          IF ret'.val \in Known /\ tasks[ret'.val].status = "running"
          THEN ret'.ok
          ELSE ~ret'.ok /\ UNCHANGED <<tasks, running_task_id, coro, single_runs>>]_vars

\* a cancel was just refused for a task that is already cancelled and whose
\* execution has not ended yet
C6_Witness ==
    /\ ret.op = "cancel" /\ ~ret.ok
    /\ ret.val \in Known
    /\ tasks[ret.val].status = "cancelled"
    /\ coro[ret.val].pc # "done"

\* the dates of a task's range, in ascending order
RangeDates(task) ==
    [i \in 1..task.total_days |-> FromOrdinal(ToOrdinal(task.start_date) + i - 1)]

\* C7: a task over N >= 1 days that is never cancelled ends with exactly N
\* per-day records, one per date of the range in ascending order, each either a
\* success record or an error record (a failing day does not end the task).
C7_OneRecordPerDay ==
    \A t \in Known :
        (coro[t].pc = "done" /\ t \notin cancelled_ids /\ tasks[t].total_days >= 1) =>
            /\ Len(tasks[t].completed_days) = tasks[t].total_days
            /\ \A i \in 1..tasks[t].total_days :
                  /\ tasks[t].completed_days[i].date = RangeDates(tasks[t])[i]
                  /\ tasks[t].completed_days[i].status \in {"success", "error"}
                  /\ tasks[t].completed_days[i].status = "error" <=>
                         tasks[t].completed_days[i].error # ""

\* a finished 3-day task whose second day failed and whose other days succeeded
C7_Witness ==
    \E t \in Known :
        /\ coro[t].pc = "done" /\ t \notin cancelled_ids
        /\ tasks[t].total_days = 3
        /\ Len(tasks[t].completed_days) = 3
        /\ tasks[t].completed_days[1].status = "success"
        /\ tasks[t].completed_days[2].status = "error"
        /\ tasks[t].completed_days[3].status = "success"

\* C8: if the adapter fails to compile the grid model during some day of a
\* task, the remaining days are not executed and the task ends in status error
\* with a non-empty message.
C8_CompileFailureEndsTask ==
    \A t \in Known :
        \A i \in 1..Len(tasks[t].completed_days) :
            (coro[t].pc = "done" /\ t \notin cancelled_ids
               /\ tasks[t].completed_days[i].error = "DSS compile error") =>
                  /\ i = Len(tasks[t].completed_days)
                  /\ tasks[t].status = "error"
                  /\ tasks[t].error # ""

\* a day's executor work (preparation, compile, 96 adapter steps) is in progress
OrchestratorDriving == (\E t \in Known : coro[t].pc = "day") \/ single_runs > 0

\* this step of the engine produced a snapshot: it drove the adapter
EngineStepped == fanout' # fanout /\ fanout' # <<>>

\* C3: the engine and the orchestrator never drive the adapter at the same
\* time: start() fails while a day execution is in progress, startBatch and the
\* single-day run fail while the engine is running, and no engine step happens
\* while a day execution is in progress.
C3_AdapterExclusive ==
    [][/\ (ret'.op = "start" /\ OrchestratorDriving) => ~ret'.ok
       /\ (ret'.op = "start_batch" /\ running) => ~ret'.ok
       /\ (single_runs' > single_runs) => ~running
       /\ EngineStepped => ~OrchestratorDriving]_vars

\* each timestamp is the one before it plus one step
Consecutive(q) == \A i \in 1..(Len(q) - 1) : q[i + 1] = q[i] + 1

Timestamps(h) == [i \in 1..Len(h) |-> h[i].timestamp]

\* C4: within one run the timestamps appended to history and fanned out are
\* strictly increasing consecutive multiples of the step: none twice, none
\* skipped.
C4_RunTimestampsConsecutive ==
    running => Consecutive(Timestamps(history)) /\ Consecutive(fanout)

\* C9: start() while the engine is running (paused or not) returns failure and
\* leaves clock, history, speed, mode, paused flag and the running loop as
\* they are.
C9_StartWhileRunningFails ==
    [][(ret'.op = "start" /\ running) =>
          /\ ~ret'.ok
          /\ UNCHANGED <<running, paused, simulation_speed, current_hour, mode,
                         history, current_state, simulation_task, loops>>]_vars

\* a start() was just refused while the engine was paused in the middle of a
\* run that had produced a snapshot
C9_Witness ==
    /\ ret.op = "start" /\ ~ret.ok
    /\ running /\ paused
    /\ history # <<>>
    /\ simulation_task # 0

\* C10: a start() that succeeds leaves clock = 0, an empty history, running,
\* not paused, a loop task, and the requested speed and mode, whatever the
\* clock and history were before.
C10_StartResets ==
    (ret.op = "start" /\ ret.ok) =>
        /\ current_hour = 0
        /\ history = <<>>
        /\ running /\ ~paused
        /\ simulation_task = Len(loops)
        /\ loops[simulation_task].pc = "spawned"
        /\ simulation_speed = ret.val[1]
        /\ mode = ret.val[2]

\* a start() just succeeded after an earlier step at a later clock value, with
\* a speed and a mode other than the initial ones
C10_Witness ==
    /\ ret.op = "start" /\ ret.ok
    /\ current_state # <<>>
    /\ current_state.timestamp > 0
    /\ simulation_speed = 2
    /\ mode = "real_data"

\* C11: pause() succeeds only from Running (running and not paused), resume()
\* only from Paused; in every other state each fails and leaves the running
\* and paused flags as they are.
C11_PauseResumePreconditions ==
    [][/\ ret'.op = "pause" =>
             IF running /\ ~paused
             THEN ret'.ok
             ELSE ~ret'.ok /\ UNCHANGED <<running, paused>>
       /\ ret'.op = "resume" =>
             IF running /\ paused
             THEN ret'.ok
             ELSE ~ret'.ok /\ UNCHANGED <<running, paused>>]_vars

\* no stepping loop is alive
NoLiveLoop(ls) == \A l \in 1..Len(ls) : ls[l].pc = "done"

\* what the engine and its loops hold (not who waits for them)
EngineState == <<model_loaded, running, paused, simulation_speed, current_hour, mode,
                 history, current_state, simulation_task, loops, fanout>>

\* C12: stop() always succeeds and leaves the engine Idle (not running, not
\* paused, no task handle, no background loop); a stop() on an engine that is
\* already Idle changes no state.
C12_StopLeavesIdle ==
    [][ret'.op = "stop" =>
          /\ ret'.ok
          /\ ~running' /\ ~paused' /\ simulation_task' = 0
          /\ NoLiveLoop(loops')
          /\ (~running /\ ~paused /\ simulation_task = 0 /\ NoLiveLoop(loops))
                => UNCHANGED EngineState]_vars

\* h2 is h with the one entry s appended (and, when h was full, without its oldest)
AppendedOne(h2, h, s) ==
    /\ h2 # <<>>
    /\ h2[Len(h2)] = s
    /\ IF Len(h) < max_history_length
       THEN Len(h2) = Len(h) + 1 /\ SubSeq(h2, 1, Len(h)) = h
       ELSE Len(h2) = Len(h) /\ SubSeq(h2, 1, Len(h) - 1) = Tail(h)

\* C13 as stated: every call of step(), in any run state, appends exactly one
\* entry to history, fans out once and advances the clock by one step.
C13_EveryStepRecords ==
    [][ret'.op = "step" =>
          /\ Len(history') = Len(history) + 1
          /\ Len(fanout') = Len(fanout) + 1
          /\ current_hour' = current_hour + 1]_vars

\* C13, amended: every step() that returns success, in any run state, appends
\* exactly one entry (the snapshot taken at the clock value before the call),
\* fans that snapshot out once and advances the clock by one step; a step()
\* that fails appends nothing, fans out nothing and leaves the clock; neither
\* changes the running or paused flag.
C13_SuccessfulStepRecords ==
    [][ret'.op = "step" =>
          /\ UNCHANGED <<running, paused, simulation_task, loops>>
          /\ IF ret'.ok
             THEN /\ fanout' = Append(fanout, current_hour)
                  /\ current_hour' = current_hour + 1
                  /\ AppendedOne(history', history, current_state')
                  /\ current_state'.timestamp = current_hour
             ELSE UNCHANGED <<history, fanout, current_hour, current_state>>]_vars

\* a step() just succeeded on a paused engine whose loop had already produced
\* a snapshot
C13_Witness ==
    /\ ret.op = "step" /\ ret.ok
    /\ running /\ paused
    /\ Len(history) >= 2
    /\ history[Len(history)].timestamp = current_hour - 1

\* C14: setSpeed(v) with v <= 0 fails and leaves the stored speed; with v > 0
\* it succeeds and the stored speed becomes v; in both cases the running and
\* paused flags, the clock and the history are unchanged.
C14_SetSpeed ==
    [][ret'.op = "set_speed" =>
          /\ ret'.ok <=> ret'.val > 0
          /\ simulation_speed' = IF ret'.val > 0 THEN ret'.val ELSE simulation_speed
          /\ UNCHANGED <<running, paused, current_hour, history>>]_vars

\* a setSpeed(0) was just refused during a run whose speed had been changed
\* from the speed it was started with
C14_Witness ==
    /\ ret.op = "set_speed" /\ ~ret.ok /\ ret.val = 0
    /\ running
    /\ history # <<>>
    /\ simulation_speed = 2
    /\ \E l \in 1..Len(loops) : loops[l].pc = "sleep" /\ loops[l].step_interval = 900

\* C15: after a successful setSpeed(v) during a run, the wait the loop begins
\* after its next snapshot (and after every later one) is computed from the
\* stored speed v, not from the speed the run was started with.
C15_SpeedChangesPacing ==
    [][(ret'.op = "none" /\ fanout' # fanout /\ simulation_task' # 0) =>
          (loops'[simulation_task'].pc = "sleep" =>
              loops'[simulation_task'].step_interval =
                  (step_minutes * 60) \div simulation_speed')]_vars

\* the last n elements of q
LastN(q, n) == SubSeq(q, Len(q) - n + 1, Len(q))

Min(a, b) == IF a <= b THEN a ELSE b

\* C16: the history never holds more than its capacity, and it is always the
\* most recent min(k, capacity) of the k entries appended so far, in append
\* order: an append to a full history evicts exactly the oldest entry.
C16_HistoryBounded ==
    /\ Len(history) <= max_history_length
    /\ Len(history) = Min(Len(fanout), max_history_length)
    /\ Timestamps(history) = LastN(fanout, Len(history))

\* capacity + 1 entries were appended: the history is full, its oldest entry
\* is the second one appended and its newest the last one
C16_Witness ==
    /\ Len(fanout) = max_history_length + 1
    /\ Len(history) = max_history_length
    /\ history[1].timestamp = 1
    /\ history[max_history_length].timestamp = max_history_length

\* C17: for every limit >= 0, getHistory(limit) returns exactly the
\* min(limit, history length) most recent entries in order (none for limit =
\* 0) and does not modify the history.
C17_GetHistoryMostRecent ==
    [][ret'.op = "get_history" =>
          /\ history' = history
          /\ ret'.val.limit >= 0 =>
                ret'.val.history = LastN(history, Min(ret'.val.limit, Len(history)))]_vars

\* loop l is left in this step
LoopExits(l) == loops[l].pc # "done" /\ loops'[l].pc = "done"

\* C18: in both modes a stepping loop is left only when the clock has reached
\* the horizon, when stop() cancelled it, or when a step raised: a loop that
\* is left by its own loop test, uncancelled and without an error, has
\* clock >= horizon (also after a pause and a resume).
C18_LoopExitsAtHorizon ==
    [][\A l \in 1..Len(loops) :
          (LoopExits(l) /\ loops'[l].exit = "ended" /\ ~loops[l].cancelled) =>
              current_hour' >= loops[l].total_hours]_vars

\* a stepping loop produced a snapshot in this step
LoopProduced == ret'.op = "none" /\ Len(fanout') = Len(fanout) + 1

\* C19: when an adapter step of the loop does not converge, the snapshot is
\* still appended to history and fanned out with converged = false, the
\* engine stays Running (flags and task handle untouched), and the loop waits
\* for its next step instead of ending.
C19_NonConvergenceRecorded ==
    [][(LoopProduced /\ ~current_state'.converged) =>
          /\ current_state'.timestamp = current_hour'
          /\ AppendedOne(history', history, current_state')
          /\ fanout' = Append(fanout, current_hour')
          /\ UNCHANGED <<running, paused, simulation_task>>
          /\ running'
          /\ \A l \in 1..Len(loops) :
                loops'[l] # loops[l] => loops'[l].pc = "sleep"
          /\ ~NoLiveLoop(loops')]_vars

\* a run went on after a step that did not converge: the history holds that
\* step with converged = false and the step after it, and the run is alive
C19_Witness ==
    /\ running
    /\ Len(history) = 2
    /\ ~history[1].converged /\ history[1].timestamp = 0
    /\ history[2].timestamp = 1
    /\ fanout = <<0, 1>>
    /\ mode = "real_data"

\* loop l is left in this step by its loop test (horizon) or by an exception
LoopEnds(l) == LoopExits(l) /\ loops'[l].exit \in {"ended", "error"}

\* the engine's last loop ended by its loop test or by an exception and
\* nothing has been started since
IdleAfterLoopEnd ==
    /\ loops # <<>>
    /\ loops[Len(loops)].pc = "done"
    /\ loops[Len(loops)].exit \in {"ended", "error"}
    /\ ~running /\ ~paused /\ simulation_task = 0

\* C20 as stated: whenever the loop ends by reaching the horizon or by an
\* exception, from Running or from Paused, the engine is Idle afterwards and
\* a subsequent start() succeeds.
C20_LoopEndThenStartSucceeds ==
    [][/\ \A l \in 1..Len(loops) :
             LoopEnds(l) => ~running' /\ ~paused' /\ simulation_task' = 0
       /\ (ret'.op = "start" /\ IdleAfterLoopEnd) => ret'.ok]_vars

\* C20, amended: whenever the loop ends by reaching the horizon or by an
\* exception, from Running or from Paused, the engine is Idle afterwards, and
\* a subsequent start() is never refused as already running: it succeeds
\* exactly when the grid model is loaded or loads.
C20_LoopEndLeavesIdle ==
    [][/\ \A l \in 1..Len(loops) :
             LoopEnds(l) => ~running' /\ ~paused' /\ simulation_task' = 0
       /\ (ret'.op = "start" /\ IdleAfterLoopEnd) =>
             /\ ret'.ok <=> model_loaded'
             /\ ret'.ok => running' /\ simulation_task' = Len(loops) + 1]_vars

\* a second run was just started after the first run's loop had ended by an
\* exception
C20_Witness ==
    /\ ret.op = "start" /\ ret.ok
    /\ Len(loops) = 2
    /\ loops[1].pc = "done" /\ loops[1].exit = "error"
    /\ loops[2].pc = "spawned"
    /\ running /\ simulation_task = 2

\* o's endpoint takes a step of the manager.broadcast it is suspended in
BroadcastStep(o) == endpoint[o].pc = "broadcast" /\ endpoint'[o] # endpoint[o]

\* the disconnect of t completes in this step
DisconnectStep(t) == endpoint[t].pc # "closed" /\ endpoint'[t].pc = "closed"

\* C21: a disconnect(t) that happens while a broadcast is suspended in its
\* iteration removes t's registrations and leaves the suspended broadcast as
\* it is; the broadcast then goes on through its list and returns to the
\* receive loop (nothing is raised); and a broadcast that began after the
\* disconnect of t had completed has t neither among its targets nor in the
\* rest of its list.
C21_DisconnectDuringBroadcast ==
    [][\A o \in Observers :
          /\ DisconnectStep(o) =>
                /\ o \notin active_connections' \cup callbacks' \cup subscribers'
                /\ \A b \in Observers \ {o} : endpoint'[b] = endpoint[b]
          /\ endpoint[o].pc = "broadcast" =>
                /\ endpoint[o].targets \cap endpoint[o].closed_before = {}
                /\ Range(endpoint[o].todo) \subseteq endpoint[o].targets
                /\ endpoint'[o].pc \in {"broadcast", "receive"}]_vars

\* a broadcast has made a delivery and is suspended before the next one, to an
\* observer whose disconnect completed after the broadcast began
C21_Witness ==
    \E o, t \in Observers :
        /\ endpoint[o].pc = "broadcast"
        /\ Len(endpoint[o].todo) < Cardinality(endpoint[o].targets)
        /\ t \in Range(endpoint[o].todo)
        /\ endpoint[t].pc = "closed"
        /\ t \notin endpoint[o].closed_before

\* the connection whose send_json returns or raises in a step of o's broadcast
FailedNow(o) ==
    LET t == Head(endpoint[o].todo)
    IN  IF socket_open[t] THEN {} ELSE {t}

\* C22: a broadcast lists every connection that is in the set when it begins;
\* each of its steps attempts the head of the list and goes on with the rest,
\* also after a failure; the set is left alone until the list is exhausted,
\* and then exactly the connections whose delivery failed are taken out.
C22_BroadcastIteratesSnapshot ==
    [][\A o \in Observers :
          /\ (endpoint[o].pc = "respond" /\ endpoint'[o].pc = "broadcast") =>
                /\ endpoint'[o].targets = active_connections
                /\ Range(endpoint'[o].todo) = active_connections
                /\ Len(endpoint'[o].todo) = Cardinality(active_connections)
                /\ endpoint'[o].disconnected = {}
                /\ active_connections' = active_connections
          /\ BroadcastStep(o) =>
                IF Len(endpoint[o].todo) > 1
                THEN /\ endpoint'[o].pc = "broadcast"
                     /\ endpoint'[o].todo = Tail(endpoint[o].todo)
                     /\ endpoint'[o].disconnected = endpoint[o].disconnected \cup FailedNow(o)
                     /\ active_connections' = active_connections
                ELSE /\ endpoint'[o].pc = "receive"
                     /\ active_connections' =
                           active_connections \ (endpoint[o].disconnected \cup FailedNow(o))]_vars

\* a broadcast is suspended in a delivery after an earlier delivery failed; the
\* connection that failed is still in the set
C22_Witness ==
    \E o \in Observers :
        /\ endpoint[o].pc = "broadcast"
        /\ endpoint[o].todo # <<>>
        /\ endpoint[o].disconnected # {}
        /\ endpoint[o].disconnected \subseteq active_connections

\* o's endpoint takes a step of the _broadcast_state it is suspended in
FanoutStep(o) == endpoint[o].pc = "fanout" /\ endpoint'[o] # endpoint[o]

\* C23: when the delivery of an engine snapshot to an observer fails, the
\* observer's callback leaves the engine's subscriber set.
C23_FailedSnapshotRemovesObserver ==
    [][\A o \in Observers :
          (FanoutStep(o) /\ ~socket_open[Head(endpoint[o].todo)]) =>
             Head(endpoint[o].todo) \notin subscribers']_vars

\* C24: in every reachable state an observer is in the active set if and only
\* if it has a callback and that callback is subscribed to the engine, and an
\* observer whose disconnect has completed has neither registration.
C24_RegistrationsAgree ==
    /\ \A o \in Observers :
          o \in active_connections <=> (o \in callbacks /\ o \in subscribers)
    /\ Closed \cap (active_connections \cup callbacks \cup subscribers) = {}

\* C25: no step writes active_connections, the callback table or the engine's
\* subscriber set without holding the hub's lock.
C25_WritesUnderLock == hub_writes.unlocked = {}

\* C26: a bad client message of any kind is answered with an error event, and
\* the observer that sent it stays connected and registered.
C26_BadMessageKeepsChannel ==
    [][(ret'.op = "message" /\ ret'.val.msg \in BadMessages) =>
          /\ ret'.val.type = "error"
          /\ endpoint'[ret'.val.observer].pc # "closed"
          /\ ret'.val.observer \in active_connections']_vars

\* C27: a single-day run asked for while the orchestrator is busy is refused
\* with Conflict: no run is begun while the busy flag is set, and a refusal
\* is given only then and leaves the task records, their executions, the
\* runs in flight and the adapter as they are.
C27_SingleDayConflict ==
    [][/\ running_task_id # 0 => single_runs' <= single_runs
       /\ (ret'.op = "simulate_day" /\ ~ret'.ok /\ ret'.val = "Conflict") =>
             /\ running_task_id # 0
             /\ UNCHANGED <<tasks, coro, running_task_id, single_runs, cancelled_ids,
                            model_loaded>>]_vars

\* a single-day run was just refused while a task has a day in flight
C27_Witness ==
    /\ ret.op = "simulate_day" /\ ~ret.ok /\ ret.val = "Conflict"
    /\ running_task_id # 0
    /\ coro[running_task_id].pc = "day"
    /\ single_runs = 0

\* C28: startBatch while busy fails with Conflict and leaves the task records,
\* the background executions and the busy flag; a startBatch that fails for
\* another reason leaves them too; a successful one appends exactly one
\* record, pending, launches one execution for it and sets the busy flag to
\* its id.
C28_StartBatchAdmission ==
    [][ret'.op = "start_batch" =>
          IF running_task_id # 0
          THEN /\ ~ret'.ok /\ ret'.val = "Conflict"
               /\ UNCHANGED <<tasks, coro, running_task_id>>
          ELSE IF ret'.ok
          THEN /\ Len(tasks') = Len(tasks) + 1
               /\ SubSeq(tasks', 1, Len(tasks)) = tasks
               /\ tasks'[Len(tasks')].status = "pending"
               /\ coro' = Append(coro, NewCoro)
               /\ running_task_id' = Len(tasks')
               /\ ret'.val = Len(tasks')
          ELSE UNCHANGED <<tasks, coro, running_task_id>>]_vars

\* a startBatch was just refused while the task started before it is running
C28_Witness ==
    /\ ret.op = "start_batch" /\ ~ret.ok /\ ret.val = "Conflict"
    /\ running_task_id # 0
    /\ tasks[running_task_id].status = "running"
    /\ Len(tasks) = 1

\* C29: on every control path a start() with a speed <= 0 is rejected and
\* changes nothing, so the engine's stored speed is > 0 in every reachable
\* state (the formula is this last clause).
C29_StoredSpeedPositive == simulation_speed > 0

\* C30: in every snapshot the engine builds, total_load_kw equals the sum of
\* the kw fields of the snapshot's load entries.
C30_TotalLoadIsSumOfLoads ==
    grid_state # <<>> => grid_state.total_load_kw = SumKw(grid_state.loads)

\* the calendar days from the date a to the date b, both included
CalendarDays(a, b) == ToOrdinal(a)..ToOrdinal(b)

\* C31: for every valid start date and optional end date, the task startBatch
\* creates has as total day count the number of calendar days from the start
\* date to the end date inclusive (1 without end date), and its mode is
\* "single" exactly when the end date is omitted or equal to the start date,
\* "range" otherwise.
C31_DayCountAndMode ==
    \A t \in Known :
        /\ tasks[t].total_days =
              Cardinality(CalendarDays(tasks[t].start_date, tasks[t].end_date))
        /\ tasks[t].mode = "single" <=> tasks[t].end_date = tasks[t].start_date
        /\ tasks[t].mode \in {"single", "range"}

\* C32: a start() that returned success is never undone by the cleanup of an
\* earlier run: when the loop of an earlier run ends while a newer run holds
\* the task handle, the running flag and the handle of the newer run stay.
C32_OldLoopSparesNewRun ==
    [][\A l \in 1..Len(loops) :
          (LoopExits(l) /\ simulation_task # 0 /\ simulation_task # l /\ running) =>
              /\ running'
              /\ simulation_task' = simulation_task]_vars

\* the tasks whose background execution has not finished
Executing == { t \in Known : coro[t].pc # "done" }

\* the tasks with a day in progress in the executor
DayInProgress == { t \in Known : coro[t].pc = "day" }

\* C33: the busy flag is set in every state in which some task's background
\* execution has not finished (a cancelled task whose day is still in flight
\* included), so no two per-day executions are in progress together.
C33_BusyWhileExecuting ==
    /\ Executing # {} => is_busy
    /\ Cardinality(DayInProgress) <= 1

\* C34: in every reachable state of the engine paused = true implies
\* running = true, for any interleaving of start, stop, pause, resume, step
\* and loop termination.
C34_PausedImpliesRunning == paused => running

\* a second run is paused while the cancelled loop of the first run is still
\* alive and a stop() waits for it
C34_Witness ==
    /\ paused /\ running
    /\ simulation_task = 2
    /\ loops[1].pc # "done" /\ loops[1].cancelled
    /\ stop_waiting[1] > 0

\* what status polling reports of task t: the number of completed-day
\* records, the current day index and the total day count
Progress(t) ==
    [completed_count |-> Len(tasks[t].completed_days),
     current_day |-> tasks[t].current_day,
     total_days |-> tasks[t].total_days]

\* C35: for every task in every reachable state, 0 <= number of completed-day
\* records <= current day index <= total day count; the current day index
\* never decreases and exceeds the number of records by at most 1.
C35_ProgressCounters ==
    /\ [](\A t \in Known :
             /\ 0 <= Progress(t).completed_count
             /\ Progress(t).completed_count <= Progress(t).current_day
             /\ Progress(t).current_day <= Progress(t).total_days
             /\ Progress(t).current_day <= Progress(t).completed_count + 1)
    /\ [][\A t \in Known : tasks'[t].current_day >= tasks[t].current_day]_vars

\* C36: whenever a task that was never cancelled has status completed, the
\* number of its completed-day records equals its total day count, for every
\* accepted pair of start and end date (an end date before the start date
\* included).
C36_CompletedMeansAllDays ==
    \A t \in Known :
        (tasks[t].status = "completed" /\ t \notin cancelled_ids) =>
            Len(tasks[t].completed_days) = tasks[t].total_days

\* the statuses a finished task may have
TerminalStatuses == {"completed", "error", "cancelled"}

\* C37: when every per-day execution returns or raises and the background
\* executions are scheduled fairly, every task startBatch created eventually
\* ends in a terminal status and the orchestrator eventually becomes non-busy.
C37_TasksTerminate ==
    /\ \A t \in 1..MaxTasks :
          [](t \in Known =>
                <>(/\ t \in Known
                   /\ coro[t].pc = "done"
                   /\ tasks[t].status \in TerminalStatuses))
    /\ (is_busy ~> ~is_busy)

\* a task over MaxSpan days has ended, all its days executed, and the
\* orchestrator is not busy
C37_Witness ==
    \E t \in Known :
        /\ coro[t].pc = "done"
        /\ tasks[t].status \in TerminalStatuses
        /\ tasks[t].total_days = MaxSpan
        /\ Len(tasks[t].completed_days) = MaxSpan
        /\ ~is_busy

\* the history, the current snapshot or the fan-out log changes in this step
Recorded == history' # history \/ current_state' # current_state \/ fanout' # fanout

\* C38 as claimed: while the engine is paused the stepping loop steps, appends
\* and fans out nothing, and between a successful pause() and the next
\* resume() or stop() the history and the current snapshot change only
\* through manual step() calls.
C38_FrozenUntilResumeOrStop ==
    [][/\ (paused /\ Recorded) => ret'.op = "step"
       /\ (pause_pending /\ pause_pending' /\ Recorded) => ret'.op = "step"]_vars

\* C38: while the paused flag is set, the stepping loop performs no adapter
\* step, appends no history entry and starts no fan-out: the history and the
\* current snapshot change only through manual step() calls (the flag is
\* cleared by resume() and stop(), and by the end of the run).
C38_FrozenWhilePaused ==
    [][(paused /\ Recorded) => (ret'.op = "step" /\ ret'.ok)]_vars

\* the loop of a paused run has found the flag set and waits; it has produced
\* a snapshot before, and a manual step has just added one more
C38_Witness ==
    /\ paused /\ running
    /\ ret.op = "step" /\ ret.ok
    /\ \E l \in 1..Len(loops) : loops[l].pc = "pause_sleep"
    /\ Len(history) = 2

\* the timestamps 0, 0.25, ... of n consecutive steps, in quarter hours
FirstTimestamps(n) == [i \in 1..n |-> i - 1]

\* C39: a run started with horizon H that is never paused, stopped or
\* manually stepped and whose adapter never raises eventually terminates: it
\* performs exactly 4*H steps with timestamps 0, 0.25, ..., H - 0.25, each
\* appended to history and fanned out once, and then the engine is Idle with
\* clock = H.
C39_UndisturbedRunCompletes ==
    /\ [][\A l \in 1..Len(loops) :
             (LoopExits(l) /\ ~loops[l].cancelled) =>
                 /\ fanout' = FirstTimestamps(loops[l].total_hours)
                 /\ Timestamps(history') = fanout'
                 /\ ~running' /\ ~paused'
                 /\ current_hour' = loops[l].total_hours]_vars
    /\ \A l \in 1..MaxRestarts :
          [](l \in 1..Len(loops) => <>(l \in 1..Len(loops) /\ loops[l].pc = "done"))

\* the callbacks a sequence of invocations called, in order
Invoked(calls) == [i \in 1..Len(calls) |-> calls[i].callback]

\* the callback that loop l's fan-out awaits raises in this step
CallbackRaises(l) ==
    /\ loops[l].pc = "fanout"
    /\ Len(loops'[l].invoked) = Len(loops[l].invoked) + 1
    /\ loops'[l].invoked[Len(loops'[l].invoked)].raised

\* C40: in an engine fan-out a subscriber callback that raises does not stop
\* the fan-out and does not stop the run: every callback that was subscribed
\* when the fan-out began is invoked once with the same snapshot, whatever the
\* callbacks before it did, the raising callback is discarded from the
\* subscriber set, and the engine's running state, clock and history are
\* unaffected.
C40_RaisingCallbackIsolated ==
    /\ [](\A l \in 1..Len(loops) :
            LET lp == loops[l]
                order == Invoked(lp.invoked) \o lp.todo
            IN  /\ Range(order) = lp.targets
                /\ Len(order) = Cardinality(lp.targets)
                /\ \A i \in 1..Len(lp.invoked) : lp.invoked[i].state_dict = lp.state_dict
                /\ lp.pc = "fanout" <=> lp.todo # <<>>)
    /\ [][\A l \in 1..Len(loops) :
             CallbackRaises(l) =>
                 /\ subscribers' = subscribers \ {Head(loops[l].todo)}
                 /\ loops'[l].todo = Tail(loops[l].todo)
                 /\ loops'[l].pc \in {"fanout", "sleep"}
                 /\ loops'[l].exit = loops[l].exit
                 /\ <<running, paused, current_hour, history, current_state>>' =
                        <<running, paused, current_hour, history, current_state>>]_vars

\* the fan-out of a running engine is over: its first callback raised, was
\* discarded, and the callback after it was still invoked with the snapshot
C40_Witness ==
    /\ running
    /\ \E l \in 1..Len(loops) :
          LET lp == loops[l]
          IN  /\ lp.pc = "sleep"
              /\ Len(lp.invoked) = 2
              /\ lp.invoked[1].raised /\ ~lp.invoked[2].raised
              /\ lp.invoked[1].callback \notin subscribers
              /\ lp.invoked[2].state_dict = current_state

====
